---- MODULE Spec2Model ----
(***************************************************************************)
(* Model of the ncurses backend of imtui (src/src/imtui-impl-ncurses.cpp): *)
(* the differential renderer and frame pacer of ImTui_ImplNcurses_         *)
(* DrawScreen / VSync::wait, and the input decoder ImTui_ImplNcurses_      *)
(* NewFrame, together with the part of the terminal library they use       *)
(* (stdscr cells, colour pairs, the input queue, the mouse event).         *)
(***************************************************************************)
EXTENDS Integers, Sequences, FiniteSets, TLC

VARIABLES
    g_screen,       \* the current buffer: [alloc, nx, ny, data]; alloc = FALSE is nullptr
    screenPrev,     \* static cache of the previous frame: [nx, ny, data]
    colPairs,       \* static colPairs[p] = [first, second]
    nColPairs,      \* static nColPairs
    nActiveFrames,  \* static nActiveFrames
    g_vsync,        \* [tStepActive_us, tStepIdle_us, tLast_us, tNext_us]
    pc,             \* "idle", or "wait" while DrawScreen is inside VSync::wait
    wait,           \* locals of VSync::wait: [active, tNow_us, tStep_us, tNextCur_us]
    clock,          \* the wall clock read by t_us(), in microseconds
    stdscr,         \* the terminal window: [cells, cy, cx, attr]
    pairs,          \* the terminal's colour pairs set by init_pair: handle -> <<f, b>>
    inq,            \* the terminal's input queue (codes and mouse records), head first
    mev,            \* the terminal library's pending mouse event, read by getmouse
    ms,             \* statics of NewFrame: [mx, my, lbut, rbut, mbut, mstate]
    io,             \* ImGui::GetIO() fields NewFrame writes
    hasInput,       \* result of the last NewFrame
    ops,            \* observation: terminal write calls of the DrawScreen in progress
    prevAtEntry,    \* observation: screenPrev as the DrawScreen in progress found it
    lastDrawn,      \* observation: g_screen as the latest DrawScreen call saw it
    sameAsLast,     \* observation: the DrawScreen in progress saw the buffer of the call before
    arrived,        \* observation: every item that arrived at the terminal, in order
    consumed,       \* observation: every code NewFrame's wgetch calls returned, in order
    batch,          \* observation: the codes the last NewFrame read
    recs,           \* observation: the mouse records the last NewFrame got from getmouse
    prevMouse,      \* observation: MousePos/MouseDown at the end of the NewFrame before
    frames,         \* observation: number of NewFrame calls (capped)
    sched           \* observation: pacing history [t0, sum, early, slow, work, retAt, sinceActive]
                    \* and restarts: fresh (Init after a frame was drawn, no draw since), first

vars == <<g_screen, screenPrev, colPairs, nColPairs, nActiveFrames, g_vsync, pc, wait,
          clock, stdscr, pairs, inq, mev, ms, io, hasInput, ops, prevAtEntry, lastDrawn,
          sameAsLast, arrived, consumed, batch, recs, prevMouse, frames, sched>>

renderVars == <<screenPrev, colPairs, nColPairs, stdscr, pairs>>
inputVars  == <<ms, io, hasInput>>
drawObs    == <<ops, prevAtEntry, lastDrawn, sameAsLast>>
inputObs   == <<consumed, batch, recs, prevMouse, frames>>

(***************************************************************************)
(* Terminal geometry and the cell encoding                                 *)
(***************************************************************************)
COLS  == 2      \* columns of the terminal (getmaxyx)
LINES == 2      \* lines of the terminal (getmaxyx)

\* TCell packs the character code (16 bits), foreground and background (8 bits each)
Pack(ch, f, b) == b * 16777216 + f * 65536 + ch
CellF(cell)  == (cell \div 65536) % 256        \* (cell & 0x00FF0000) >> 16
CellB(cell)  == (cell \div 16777216) % 256     \* (cell & 0xFF000000) >> 24
CellP(cell)  == CellB(cell) * 256 + CellF(cell) \* p = b*256 + f
CellCh(cell) == cell % 65536                   \* cell & 0x0000FFFF

\* curs[ic++] = c > 0 ? c : ' ' stores a uint16_t into a uint8_t
CursByte(c) == (IF c > 0 THEN c ELSE 32) % 256

\* The cell values the rasterizer writes in this model: unset (colour pair 0/0),
\* 'A' and 'B' in colour pair 1/0, and a code above 255 (0x0100) in colour pair 1/0
AsciiVals == { 0, Pack(65, 1, 0), Pack(66, 1, 0) }
WideVals  == { 0, Pack(65, 1, 0), Pack(256, 1, 0) }
CellVals  == AsciiVals \cup WideVals
PairIdx  == { CellP(v) : v \in CellVals }

\* Buffer dimensions the framework asks for (nx, ny), all within the terminal
Dims == { <<2, 2>>, <<1, 2>> }
OneRow == { <<2, 1>>, <<1, 1>> }

NoData == [i \in {} |-> 0]
NoPrev == [nx |-> 0, ny |-> 0, data |-> NoData]
Blank  == [ch |-> 32, pair |-> 0]

\* TScreen::resize(nx, ny) of imtui.h: sets the dimensions and keeps the linear
\* array; cells of a grown array are given here as 0 (DrawScreen never reads them
\* before it overwrites them)
TScreenResize(s, nx, ny) ==
    [s EXCEPT !.nx = nx, !.ny = ny,
              !.data = [i \in 0..(nx * ny - 1) |->
                            IF i \in DOMAIN s.data THEN s.data[i] ELSE 0]]

(***************************************************************************)
(* Terminal library calls used by the renderer                             *)
(***************************************************************************)
\* the C string at buf: the bytes before the first zero byte
RECURSIVE CStr(_, _)
CStr(buf, i) == IF buf[i] = 0 THEN <<>> ELSE <<buf[i]>> \o CStr(buf, i + 1)

\* move(y, 0)
Move(st, y) ==
    [st EXCEPT !.win.cy = y, !.win.cx = 0,
               !.ops = Append(@, <<"move", y, 0>>)]

\* attron(COLOR_PAIR(n)): the window's colour pair becomes n
AttrOn(st, y, n) ==
    [st EXCEPT !.win.attr = n,
               !.ops = Append(@, <<"attron", y, n>>)]

\* addch of one byte at the cursor, which advances and wraps at the right margin
PutCh(win, byte) ==
    LET here == <<win.cy, win.cx>>
        lastCol == win.cx = COLS - 1
    IN [win EXCEPT !.cells[here] = [ch |-> byte, pair |-> win.attr],
                   !.cx = IF lastCol THEN (IF win.cy = LINES - 1 THEN win.cx ELSE 0)
                                     ELSE win.cx + 1,
                   !.cy = IF lastCol /\ win.cy < LINES - 1 THEN win.cy + 1 ELSE win.cy]

RECURSIVE PutStr(_, _)
PutStr(win, s) == IF s = <<>> THEN win ELSE PutStr(PutCh(win, Head(s)), Tail(s))

\* curs[ic] = 0; addstr((char *) curs.data()); ic = 0; curs[0] = 0;
FlushRun(st, y) ==
    LET buf == [st.curs EXCEPT ![st.ic] = 0]
        s   == CStr(buf, 0)
    IN [st EXCEPT !.win = PutStr(st.win, s),
                  !.ops = Append(@, <<"addstr", y, s>>),
                  !.ic = 0,
                  !.curs = [buf EXCEPT ![0] = 0]]

\* if (colPairs[p].first == false) { init_pair(nColPairs, f, b); ... ++nColPairs; }
InitPair(st, p, f, b) ==
    IF st.colPairs[p].first THEN st
    ELSE [st EXCEPT !.pairs = [h \in DOMAIN st.pairs \cup {st.nColPairs} |->
                                  IF h = st.nColPairs THEN <<f, b>> ELSE st.pairs[h]],
                    !.colPairs[p] = [first |-> TRUE, second |-> st.nColPairs],
                    !.nColPairs = @ + 1]

\* if (lastp != (int) p) { flush the run; attron(COLOR_PAIR(colPairs[p].second)); }
SwitchPair(st, y, p, lastp) ==
    IF lastp # p THEN AttrOn(FlushRun(st, y), y, st.colPairs[p].second) ELSE st

\* the loop over the cells of a dirty row, lines 370-396
RECURSIVE DrawCells(_, _, _, _, _)
DrawCells(st, scr, y, x, lastp) ==
    IF x >= scr.nx THEN st
    ELSE LET cell == scr.data[y * scr.nx + x]
             f == CellF(cell)
             b == CellB(cell)
             p == CellP(cell)
             st1 == InitPair(st, p, f, b)
             st2 == SwitchPair(st1, y, p, lastp)
             st3 == [st2 EXCEPT !.curs[st2.ic] = CursByte(CellCh(cell)),
                                !.ic = @ + 1]
         IN DrawCells(st3, scr, y, x + 1, p)

\* a dirty row: move, the runs, the final flush, lines 368-403
DrawRow(st, scr, y) == FlushRun(DrawCells(Move(st, y), scr, y, 0, -1), y)

\* the comparison of row y with the cache, lines 357-365
RowSameFirstCell(compare, prev, scr, y) ==
    compare /\ (scr.nx > 0 => prev.data[y * scr.nx] = scr.data[y * scr.nx])
RowSame(compare, prev, scr, y) ==
    compare /\ \A x \in 0..(scr.nx - 1) :
                  prev.data[y * scr.nx + x] = scr.data[y * scr.nx + x]

\* memcpy of row y into the cache, lines 405-407
CopyRowSkipped(prev, scr, y) == prev
CopyRow(prev, scr, y) ==
    [prev EXCEPT !.data = [i \in DOMAIN prev.data |->
                              IF i \in (y * scr.nx)..(y * scr.nx + scr.nx - 1)
                              THEN scr.data[i] ELSE prev.data[i]]]

\* the loop over the rows, lines 356-408
RECURSIVE DrawRows(_, _, _, _)
DrawRows(st, scr, compare, y) ==
    IF y >= scr.ny THEN st
    ELSE IF RowSame(compare, st.prev, scr, y)
         THEN DrawRows(st, scr, compare, y + 1)
         ELSE LET st1 == DrawRow(st, scr, y)
                  st2 == IF compare
                         THEN [st1 EXCEPT !.prev = CopyRow(st1.prev, scr, y)]
                         ELSE st1
              IN DrawRows(st2, scr, compare, y + 1)

\* if (screenPrev.nx != nx || screenPrev.ny != ny), line 348
DimsChangedAlways(prev, scr) == TRUE
DimsChangedGrowthOnly(prev, scr) == prev.nx < scr.nx \/ prev.ny < scr.ny
DimsChanged(prev, scr) == prev.nx # scr.nx \/ prev.ny # scr.ny

\* the rendering part of DrawScreen, lines 343-412
Render(scr) ==
    LET compare == ~DimsChanged(screenPrev, scr)
        prev0 == IF compare THEN screenPrev
                 ELSE TScreenResize(screenPrev, scr.nx, scr.ny)
        st0 == [win |-> stdscr, pairs |-> pairs, colPairs |-> colPairs,
                nColPairs |-> nColPairs, prev |-> prev0, ops |-> <<>>,
                ic |-> 0, curs |-> [i \in 0..scr.nx |-> 0]]
        st1 == DrawRows(st0, scr, compare, 0)
    IN IF compare THEN st1
       ELSE [st1 EXCEPT !.prev.data = [i \in DOMAIN st1.prev.data |-> scr.data[i]]]

(***************************************************************************)
(* The terminal's input side: wgetch, ungetch, getmouse                    *)
(***************************************************************************)
ERR       == -1
KEY_MOUSE == 409      \* 0631 in ncurses.h

NoEvent == <<>>
Key(c)            == [code |-> c, ev |-> NoEvent]
Mouse(x, y, bits) == [code |-> KEY_MOUSE, ev |-> <<x, y, bits>>]

\* wgetch(stdscr), non-blocking: the code at the head of the queue or ERR; reading a
\* mouse report stores its record for getmouse
WgetchCode(q)    == IF q = <<>> THEN ERR ELSE Head(q).code
WgetchQueue(q)   == IF q = <<>> THEN q ELSE Tail(q)
WgetchEvent(q, e) == IF q # <<>> /\ Head(q).ev # NoEvent THEN Head(q).ev ELSE e

\* ungetch(ch): the code goes back to the head of the queue
UngetchDrop(q, ch) == q
Ungetch(q, ch) == <<Key(ch)>> \o q

(***************************************************************************)
(* VSync                                                                   *)
(***************************************************************************)
Epoch == 100000     \* the clock reading when the program starts

\* VSync(fps_active, fps_idle), lines 48-55
VSync(fps_active, fps_idle) ==
    [tStepActive_us |-> 1000000 \div fps_active,
     tStepIdle_us   |-> 1000000 \div fps_idle,
     tLast_us |-> clock,
     tNext_us |-> clock]

Min(a, b) == IF a <= b THEN a ELSE b

\* while (tNow_us < tNextCur_us - 100), line 67
WaitLoopCond == wait.tNow_us < wait.tNextCur_us - 100
\* if (tNow_us + 0.5*tStepActive_us < tNextCur_us), line 68
WaitPollCond == 2 * wait.tNow_us + g_vsync.tStepActive_us < 2 * wait.tNextCur_us
\* min((uint64_t)(0.9*tStepActive_us), (uint64_t)(0.9*(tNextCur_us - tNow_us))), lines 80-81
WaitSleepFor == Min((9 * g_vsync.tStepActive_us) \div 10,
                    (9 * (wait.tNextCur_us - wait.tNow_us)) \div 10)

\* tNext_us += tStep_us, line 87
NextTickFromNow(v, w) == [v EXCEPT !.tNext_us = w.tNow_us + w.tStep_us]
NextTickStays(v, w) == v
NextTick(v, w) == [v EXCEPT !.tNext_us = @ + w.tStep_us]

\* if (active) nActiveFrames = 10, line 339
ActiveFramesShort(active) == IF active THEN 9 ELSE nActiveFrames
ActiveFrames(active) == IF active THEN 10 ELSE nActiveFrames

(***************************************************************************)
(* Bounds of the exploration                                               *)
(***************************************************************************)
MaxTime      == 3500    \* frame pacer: no DrawScreen call and no work later than this after Epoch
QueueTime    == 500     \* input path: no DrawScreen call later than this after Epoch
StickyTime   == 4000    \* active/idle rate: no DrawScreen call later than this after Epoch
MaxIdle      == 3       \* no DrawScreen(false) call once nActiveFrames is -MaxIdle
MaxArrivals  == 3       \* items that arrive at the terminal in one run
MaxOvershoot == 40      \* how much longer than asked sleep_for may sleep
MaxFrames    == 2       \* NewFrame calls counted by the observation variable frames
MaxKeys      == 2       \* decoder alphabet: items that arrive at the terminal in one run

(***************************************************************************)
(* Initial state: the statics as the program's start constructs them       *)
(***************************************************************************)
BlankWindow ==
    [cells |-> [c \in (0..(LINES - 1)) \X (0..(COLS - 1)) |-> Blank],
     cy |-> 0, cx |-> 0, attr |-> 0]

Init ==
    /\ g_screen = [alloc |-> FALSE, nx |-> 0, ny |-> 0, data |-> NoData]
    /\ screenPrev = [nx |-> 0, ny |-> 0, data |-> NoData]
    /\ colPairs = [p \in PairIdx |-> [first |-> FALSE, second |-> 0]]
    /\ nColPairs = 1
    /\ nActiveFrames = 10
    /\ clock = Epoch
    /\ g_vsync = [tStepActive_us |-> 1000000 \div 60, tStepIdle_us |-> 1000000 \div 60,
                  tLast_us |-> Epoch, tNext_us |-> Epoch]
    /\ pc = "idle"
    /\ wait = [active |-> FALSE, tNow_us |-> 0, tStep_us |-> 0, tNextCur_us |-> 0]
    /\ stdscr = BlankWindow
    /\ pairs = [h \in {} |-> <<0, 0>>]
    /\ inq = <<>>
    /\ mev = NoEvent
    /\ ms = [mx |-> 0, my |-> 0, lbut |-> 0, rbut |-> 0, mbut |-> 0, mstate |-> 0]
    /\ io = [KeysDown |-> {}, KeyCtrl |-> FALSE, KeyShift |-> FALSE, KeyAlt |-> FALSE,
             MouseWheel |-> 0, MousePos |-> <<0, 0>>, MouseDown |-> <<0, 0, 0>>,
             InputChars |-> <<>>, DisplaySize |-> <<0, 0>>]
    /\ hasInput = FALSE
    /\ ops = <<>>
    /\ prevAtEntry = NoPrev
    /\ lastDrawn = [alloc |-> FALSE, nx |-> 0, ny |-> 0, data |-> NoData]
    /\ sameAsLast = FALSE
    /\ arrived = <<>>
    /\ consumed = <<>>
    /\ batch = <<>>
    /\ recs = <<>>
    /\ prevMouse = [MousePos |-> <<0, 0>>, MouseDown |-> <<0, 0, 0>>]
    /\ frames = 0
    /\ sched = [t0 |-> Epoch, sum |-> 0, early |-> 0, slow |-> FALSE,
                work |-> 0, retAt |-> Epoch, sinceActive |-> -1,
                fresh |-> FALSE, first |-> FALSE]

(***************************************************************************)
(* ImTui_ImplNcurses_Init and ImTui_ImplNcurses_Shutdown                   *)
(***************************************************************************)
\* lines 103-178, with mouseSupport = true
ImplInit(fps_active, fps_idle) ==
    /\ pc = "idle"
    /\ ~g_screen.alloc
    /\ g_screen' = [alloc |-> TRUE, nx |-> 0, ny |-> 0, data |-> NoData]
    /\ LET idle1 == IF fps_idle < 0 THEN fps_active ELSE fps_idle
       IN g_vsync' = VSync(fps_active, Min(fps_active, idle1))
    /\ stdscr' = BlankWindow                     \* initscr()
    /\ pairs' = [h \in {} |-> <<0, 0>>]          \* start_color()
    /\ sched' = [sched EXCEPT !.t0 = clock, !.sum = 0, !.early = 0,
                              !.slow = FALSE, !.work = 0, !.retAt = clock,
                              !.fresh = lastDrawn.alloc]
    /\ io' = [io EXCEPT !.DisplaySize = <<COLS, LINES>>]     \* getmaxyx
    /\ UNCHANGED <<screenPrev, colPairs, nColPairs, nActiveFrames, pc, wait, clock,
                   inq, mev, ms, hasInput, drawObs, arrived, inputObs>>

\* lines 180-191
ImplShutdown ==
    /\ pc = "idle"
    /\ g_screen.alloc
    /\ g_screen' = [alloc |-> FALSE, nx |-> 0, ny |-> 0, data |-> NoData]
    /\ UNCHANGED <<renderVars, nActiveFrames, g_vsync, pc, wait, clock, inq, mev,
                   inputVars, drawObs, arrived, inputObs, sched>>

(***************************************************************************)
(* The framework fills the buffer between NewFrame and DrawScreen          *)
(***************************************************************************)
\* screen->resize(nx, ny) by the rasterizer
ResizeScreen(nx, ny) ==
    /\ pc = "idle"
    /\ g_screen.alloc
    /\ <<nx, ny>> # <<g_screen.nx, g_screen.ny>>
    /\ g_screen' = TScreenResize(g_screen, nx, ny)
    /\ UNCHANGED <<renderVars, nActiveFrames, g_vsync, pc, wait, clock, inq, mev,
                   inputVars, drawObs, arrived, inputObs, sched>>

\* the rasterizer writes one cell
SetCell(i, v) ==
    /\ pc = "idle"
    /\ g_screen.alloc
    /\ i \in DOMAIN g_screen.data
    /\ g_screen.data[i] # v
    /\ g_screen' = [g_screen EXCEPT !.data[i] = v]
    /\ UNCHANGED <<renderVars, nActiveFrames, g_vsync, pc, wait, clock, inq, mev,
                   inputVars, drawObs, arrived, inputObs, sched>>

(***************************************************************************)
(* ImTui_ImplNcurses_DrawScreen up to the call of g_vsync.wait, and the    *)
(* entry of VSync::wait (lines 338-414 and 61-65)                          *)
(***************************************************************************)
DrawScreen(active) ==
    /\ pc = "idle"
    /\ g_screen.alloc
    /\ LET r == Render(g_screen)
           n == ActiveFrames(active)
           waitActive == n > 0                     \* nActiveFrames --> 0
           tStep == IF waitActive THEN g_vsync.tStepActive_us
                                  ELSE g_vsync.tStepIdle_us
       IN /\ screenPrev' = r.prev
          /\ colPairs' = r.colPairs
          /\ nColPairs' = r.nColPairs
          /\ stdscr' = r.win
          /\ pairs' = r.pairs
          /\ ops' = r.ops
          /\ nActiveFrames' = n - 1
          /\ wait' = [active |-> waitActive, tNow_us |-> clock, tStep_us |-> tStep,
                      tNextCur_us |-> g_vsync.tNext_us + tStep]
          /\ sched' = [sched EXCEPT
                         !.slow = @ \/ sched.work >= tStep,
                         !.work = 0,
                         !.first = sched.fresh,
                         !.fresh = FALSE,
                         !.sinceActive = IF active THEN 0
                                         ELSE IF @ < 0 THEN @
                                         ELSE Min(@ + 1, 10 + MaxIdle)]
    /\ prevAtEntry' = screenPrev
    /\ lastDrawn' = g_screen
    /\ sameAsLast' = (lastDrawn.alloc /\ lastDrawn = g_screen)
    /\ pc' = "wait"
    /\ UNCHANGED <<g_screen, g_vsync, clock, inq, mev, inputVars, arrived, inputObs>>

(***************************************************************************)
(* VSync::wait, lines 67-88                                                *)
(***************************************************************************)
\* the loop condition is false: tNext_us += tStep_us, and wait returns
WaitReturn ==
    /\ pc = "wait"
    /\ ~WaitLoopCond
    /\ g_vsync' = NextTick(g_vsync, wait)
    /\ pc' = "idle"
    /\ ops' = <<>>
    /\ sched' = [sched EXCEPT !.sum = @ + wait.tStep_us,
                              !.retAt = clock]
    /\ prevAtEntry' = NoPrev
    /\ sameAsLast' = FALSE
    /\ UNCHANGED <<g_screen, renderVars, nActiveFrames, wait, clock, inq, mev,
                   inputVars, lastDrawn, arrived, inputObs>>

\* wgetch finds a code: ungetch(ch) and return
WaitInput ==
    /\ pc = "wait"
    /\ WaitLoopCond
    /\ WaitPollCond
    /\ inq # <<>>
    /\ inq' = Ungetch(WgetchQueue(inq), WgetchCode(inq))
    /\ mev' = WgetchEvent(inq, mev)
    /\ wait' = [wait EXCEPT !.tNextCur_us = wait.tNow_us]
    /\ pc' = "idle"
    /\ ops' = <<>>
    /\ sched' = [sched EXCEPT !.early = 1,
                              !.retAt = clock]
    /\ prevAtEntry' = NoPrev
    /\ sameAsLast' = FALSE
    /\ UNCHANGED <<g_screen, renderVars, nActiveFrames, g_vsync, clock,
                   inputVars, lastDrawn, arrived, inputObs>>

\* no code is pending (or the tick is less than half a step away): sleep, read the clock
WaitSleep(overshoot) ==
    /\ pc = "wait"
    /\ WaitLoopCond
    /\ ~WaitPollCond \/ inq = <<>>
    /\ clock' = clock + WaitSleepFor + overshoot
    /\ wait' = [wait EXCEPT !.tNow_us = clock']
    /\ UNCHANGED <<g_screen, renderVars, nActiveFrames, g_vsync, pc, inq, mev,
                   inputVars, drawObs, arrived, inputObs, sched>>

\* the application works between wait's return and the next DrawScreen
Work(d) ==
    /\ pc = "idle"
    /\ g_screen.alloc
    /\ sched.work = 0
    /\ clock' = clock + d
    /\ sched' = [sched EXCEPT !.work = d]
    /\ UNCHANGED <<g_screen, renderVars, nActiveFrames, g_vsync, pc, wait, inq, mev,
                   inputVars, drawObs, arrived, inputObs>>

(***************************************************************************)
(* ImTui_ImplNcurses_NewFrame, lines 193-329                               *)
(***************************************************************************)
\* bits of MEVENT.bstate (ncurses.h, NCURSES_MOUSE_VERSION 2)
BUTTON1_RELEASED == 1
BUTTON1_PRESSED  == 2
BUTTON2_RELEASED == 32
BUTTON2_PRESSED  == 64
BUTTON3_RELEASED == 1024
BUTTON3_PRESSED  == 2048
BUTTON4_PRESSED  == 65536
BUTTON5_PRESSED  == 2097152
BUTTON_CTRL      == 33554432
BUTTON_SHIFT     == 67108864
BUTTON_ALT       == 134217728
REPORT_MOUSE_POSITION == 268435456

\* key codes of ncurses.h used by the decoder
KEY_DOWN      == 258
KEY_UP        == 259
KEY_LEFT      == 260
KEY_RIGHT     == 261
KEY_BACKSPACE == 263
KEY_DC        == 330

\* key codes of the _WIN32 build, lines 15-26
KEY_OFFSET == 60416     \* 0xec00
KEY_BREAK  == KEY_OFFSET + 1
KEY_HOME   == KEY_OFFSET + 6
KEY_F0     == KEY_OFFSET + 8

\* the entries of ImGui::GetIO().KeyMap the decoder reads, set by Init
KeyMap_LeftArrow  == 260
KeyMap_RightArrow == 261
KeyMap_UpArrow    == 259
KeyMap_DownArrow  == 258
KeyMap_Delete     == 330
KeyMap_Backspace  == 263
KeyMap_Enter      == 10

\* every index Init enters in ImGui::GetIO().KeyMap, lines 145-166
KeyMap == { 9, 260, 261, 259, 258, 339, 338, 262, 360, 331, 330, 263, 32, 10, 27, 343,
            1, 3, 22, 24, 25, 26 }

\* the number of entries of ImGui::GetIO().KeysDown, line 213
KeysDownSize == 512

\* mstate & bit, for a single-bit mask
HasBit(m, bit) == (m \div bit) % 2 = 1

\* DisplaySize from getmaxyx and the resets at the start of the frame, lines 199-222;
\* InputChars holds the characters this frame hands to AddInputCharactersUTF8
FrameStartKeepsFlags(i) ==
    [i EXCEPT !.DisplaySize = <<COLS, LINES>>, !.InputChars = <<>>]
FrameStart(i) ==
    [i EXCEPT !.DisplaySize = <<COLS, LINES>>, !.KeysDown = {}, !.KeyCtrl = FALSE, !.KeyShift = FALSE,
              !.KeyAlt = FALSE, !.MouseWheel = 0, !.InputChars = <<>>]

\* if ((mstate & 0xf) == 0x1) { lbut = 0; rbut = 0; mbut = 0; }, lines 228-232
ReleaseAll(m) ==
    IF m.mstate % 16 = 1 THEN [m EXCEPT !.lbut = 0, !.rbut = 0, !.mbut = 0] ELSE m

\* the press and release bits of one button, lines 243-252
Button(old, bits, pressed, released) ==
    IF HasBit(bits, released) THEN 0
    ELSE IF HasBit(bits, pressed) THEN 1 ELSE old

\* a mouse record read by getmouse, lines 237-252
MouseRecordLeftBitsTwice(m, ev) ==
    [m EXCEPT !.mx = ev[1], !.my = ev[2], !.mstate = ev[3],
              !.lbut = Button(m.lbut, ev[3], BUTTON1_PRESSED, BUTTON1_RELEASED),
              !.mbut = Button(m.mbut, ev[3], BUTTON2_PRESSED, BUTTON2_RELEASED),
              !.rbut = Button(m.rbut, ev[3], BUTTON1_PRESSED, BUTTON1_RELEASED)]
MouseRecord(m, ev) ==
    [m EXCEPT !.mx = ev[1], !.my = ev[2], !.mstate = ev[3],
              !.lbut = Button(m.lbut, ev[3], BUTTON1_PRESSED, BUTTON1_RELEASED),
              !.mbut = Button(m.mbut, ev[3], BUTTON2_PRESSED, BUTTON2_RELEASED),
              !.rbut = Button(m.rbut, ev[3], BUTTON3_PRESSED, BUTTON3_RELEASED)]

\* wheel and modifier bits of a mouse record, lines 255-262
MouseIO(i, bits) ==
    [i EXCEPT !.MouseWheel = IF HasBit(bits, BUTTON4_PRESSED) THEN @ + 1
                             ELSE IF HasBit(bits, BUTTON5_PRESSED) THEN @ - 1 ELSE @,
              !.KeyCtrl  = @ \/ HasBit(bits, BUTTON_CTRL),
              !.KeyShift = @ \/ HasBit(bits, BUTTON_SHIFT),
              !.KeyAlt   = @ \/ HasBit(bits, BUTTON_ALT)]

\* if (c >= 1 && c <= 26 && c != 9 && c != 10 && c != 13), line 272
IsCtrlCodeWithTab(c) == c >= 1 /\ c <= 26 /\ c # 10 /\ c # 13
IsCtrlCode(c) == c >= 1 /\ c <= 26 /\ c # 9 /\ c # 10 /\ c # 13

\* the key-down slot a code marks, lines 285-314
KeySlot(c) ==
    IF c = 330 THEN KeyMap_Delete
    ELSE IF c = KEY_BACKSPACE \/ c = KEY_DC \/ c = 127 THEN KeyMap_Backspace
    ELSE IF c = 393 THEN KeyMap_LeftArrow
    ELSE IF c = 402 THEN KeyMap_RightArrow
    ELSE IF c = 337 THEN KeyMap_UpArrow
    ELSE IF c = 336 THEN KeyMap_DownArrow
    ELSE IF c = KEY_LEFT THEN KeyMap_LeftArrow
    ELSE IF c = KEY_RIGHT THEN KeyMap_RightArrow
    ELSE IF c = KEY_UP THEN KeyMap_UpArrow
    ELSE IF c = KEY_DOWN THEN KeyMap_DownArrow
    ELSE c

\* the shifted-arrow codes also set KeyShift, lines 290-301
IsShiftArrow(c) == c \in {393, 402, 337, 336}

\* the decoding of one key code (after the escape prefix is taken), lines 272-314
DecodeKey(i, c0) ==
    LET ctrl == IsCtrlCode(c0)
        c    == IF ctrl THEN 97 + c0 - 1 ELSE c0          \* c = 'a' + c - 1
        text == c < 127 /\ c # KeyMap_Enter /\ c % 256 # 0
    IN [i EXCEPT !.KeyCtrl = @ \/ ctrl,
                 !.InputChars = IF text THEN Append(@, c % 256) ELSE @,
                 !.KeysDown = @ \cup {KeySlot(c)},
                 !.KeyShift = @ \/ IsShiftArrow(c)]

\* if (c == 27) { next_ch = wgetch(stdscr); if (next_ch != ERR) { KeyAlt = true; c = next_ch; } }
\* lines 265-271: [c, alt, q, e, read] after the prefix is taken
EscapeNoPrefix(c, q, e) ==
    [c |-> c, alt |-> FALSE, q |-> q, e |-> e, read |-> <<>>]
EscapePrefix(c, q, e) ==
    IF c = 27 /\ WgetchCode(q) # ERR
    THEN [c |-> WgetchCode(q), alt |-> TRUE, q |-> WgetchQueue(q),
          e |-> WgetchEvent(q, e), read |-> <<WgetchCode(q)>>]
    ELSE [c |-> c, alt |-> FALSE, q |-> q, e |-> e, read |-> <<>>]

\* the loop while (true) { int c = wgetch(stdscr); ... }, lines 224-318
ReadLoopOnce(st) ==
    IF WgetchCode(st.q) = ERR THEN st
    ELSE [st EXCEPT !.q = WgetchQueue(st.q), !.has = TRUE,
                    !.batch = Append(@, WgetchCode(st.q))]
RECURSIVE ReadLoop(_)
ReadLoop(st) ==
    LET c  == WgetchCode(st.q)
        q1 == WgetchQueue(st.q)
        e1 == WgetchEvent(st.q, st.e)
    IN IF c = ERR
       THEN [st EXCEPT !.m = ReleaseAll(st.m)]
       ELSE IF c = KEY_MOUSE
       THEN IF e1 # NoEvent                              \* getmouse(&event) == OK
            THEN ReadLoop([st EXCEPT !.q = q1, !.e = NoEvent,
                                     !.m = MouseRecord(st.m, e1),
                                     !.i = MouseIO(st.i, e1[3]),
                                     !.has = TRUE,
                                     !.batch = Append(@, c),
                                     !.recs = Append(@, e1)])
            ELSE ReadLoop([st EXCEPT !.q = q1, !.has = TRUE, !.batch = Append(@, c)])
       ELSE LET esc == EscapePrefix(c, q1, e1)
                i1  == [st.i EXCEPT !.KeyAlt = @ \/ esc.alt]
            IN ReadLoop([st EXCEPT !.q = esc.q, !.e = esc.e,
                                   !.i = DecodeKey(i1, esc.c),
                                   !.has = TRUE,
                                   !.batch = @ \o <<c>> \o esc.read])

NewFrame ==
    /\ pc = "idle"
    /\ g_screen.alloc
    /\ LET st == ReadLoop([q |-> inq, e |-> mev, m |-> ms, i |-> FrameStart(io),
                           has |-> FALSE, batch |-> <<>>, recs |-> <<>>])
       IN /\ inq' = st.q
          /\ mev' = st.e
          /\ ms' = st.m
          /\ io' = [st.i EXCEPT !.MousePos = <<st.m.mx, st.m.my>>,
                                !.MouseDown = <<st.m.lbut, st.m.rbut, st.m.mbut>>]
          /\ hasInput' = st.has
          /\ batch' = st.batch
          /\ recs' = st.recs
          /\ consumed' = consumed \o st.batch
    /\ g_vsync' = [g_vsync EXCEPT !.tLast_us = clock]     \* DeltaTime = g_vsync.delta_s()
    /\ prevMouse' = [MousePos |-> io.MousePos, MouseDown |-> io.MouseDown]
    /\ frames' = Min(frames + 1, MaxFrames)
    /\ UNCHANGED <<g_screen, renderVars, nActiveFrames, pc, wait, clock, drawObs,
                   arrived, sched>>

\* a key code or a mouse report arrives at the terminal
Arrive(item) ==
    /\ g_screen.alloc
    /\ inq' = Append(inq, item)
    /\ arrived' = Append(arrived, item)
    /\ UNCHANGED <<g_screen, renderVars, nActiveFrames, g_vsync, pc, wait, clock, mev,
                   inputVars, drawObs, inputObs, sched>>

(***************************************************************************)
(* Specification of the renderer: the framework resizes and fills the      *)
(* buffer, the application draws, shuts down and starts again. The frame   *)
(* rates are beyond 1 MHz, so that no tick is ever waited for.             *)
(***************************************************************************)
NextDraw ==
    \/ ImplInit(2000000, -1)
    \/ \E d \in Dims : ResizeScreen(d[1], d[2])
    \/ \E i \in 0..(COLS * LINES - 1), v \in AsciiVals : SetCell(i, v)
    \/ DrawScreen(TRUE)
    \/ WaitReturn

SpecDraw == Init /\ [][NextDraw]_vars

(***************************************************************************)
(* Specification of the renderer across restarts: the application shuts    *)
(* the terminal down and initialises it again; one-row buffers.            *)
(***************************************************************************)
NextRestart ==
    \/ ImplInit(2000000, -1)
    \/ ImplShutdown
    \/ \E d \in OneRow : ResizeScreen(d[1], d[2])
    \/ \E i \in 0..(COLS - 1), v \in AsciiVals : SetCell(i, v)
    \/ DrawScreen(TRUE)
    \/ WaitReturn

SpecRestart == Init /\ [][NextRestart]_vars

(***************************************************************************)
(* Specification of the renderer on one-row buffers whose cells may hold a *)
(* character code above 255.                                               *)
(***************************************************************************)
NextGlyph ==
    \/ ImplInit(2000000, -1)
    \/ \E d \in OneRow : ResizeScreen(d[1], d[2])
    \/ \E i \in 0..(COLS - 1), v \in WideVals : SetCell(i, v)
    \/ DrawScreen(TRUE)
    \/ WaitReturn

SpecGlyph == Init /\ [][NextGlyph]_vars

(***************************************************************************)
(* Specification of the input decoder: key codes and mouse reports arrive, *)
(* the application calls NewFrame.                                         *)
(***************************************************************************)
InputItems ==
    { Key(27), Key(97), Key(1), Key(393),
      Mouse(1, 0, BUTTON1_PRESSED), Mouse(1, 1, BUTTON1_RELEASED),
      Mouse(0, 1, BUTTON3_PRESSED), Mouse(0, 0, BUTTON2_PRESSED),
      Mouse(2, 0, REPORT_MOUSE_POSITION) }

NextInput ==
    \/ ImplInit(60, -1)
    \/ \E item \in InputItems : Len(arrived) < MaxArrivals /\ Arrive(item)
    \/ NewFrame

SpecInput == Init /\ [][NextInput]_vars

(***************************************************************************)
(* Specification of the frame pacer: 4000 frames per second when active,   *)
(* 2000 when idle; the buffer stays empty; the application works between   *)
(* the frames, sleeps may overshoot, no input arrives.                     *)
(***************************************************************************)
WorkTimes == { 100, 400 }

NextPace ==
    \/ ImplInit(4000, 2000)
    \/ \E active \in BOOLEAN :
          /\ clock <= Epoch + MaxTime
          /\ active \/ nActiveFrames > -MaxIdle
          /\ DrawScreen(active)
    \/ WaitReturn
    \/ \E overshoot \in {0, MaxOvershoot} : WaitSleep(overshoot)
    \/ \E d \in WorkTimes : clock + d <= Epoch + MaxTime /\ Work(d)

SpecPace == Init /\ [][NextPace]_vars

(***************************************************************************)
(* Specification of the frame loop's input path: key codes and mouse       *)
(* reports arrive at any time, also while DrawScreen waits for the tick;   *)
(* sleeps are exact.                                                       *)
(***************************************************************************)
QueueItems == { Key(27), Key(97), Mouse(1, 0, BUTTON1_PRESSED) }

NextQueue ==
    \/ ImplInit(4000, 2000)
    \/ clock <= Epoch + QueueTime /\ DrawScreen(TRUE)
    \/ WaitReturn
    \/ WaitInput
    \/ WaitSleep(0)
    \/ \E item \in QueueItems : Len(arrived) < MaxArrivals /\ Arrive(item)
    \/ NewFrame

SpecQueue == Init /\ [][NextQueue]_vars

(***************************************************************************)
(* The same frame loop with its scheduling: the thread inside VSync::wait  *)
(* keeps running, so one of the steps of the wait loop is eventually taken.*)
(***************************************************************************)
WaitStep == WaitReturn \/ WaitInput \/ WaitSleep(0)

SpecWait == Init /\ [][NextQueue]_vars /\ WF_vars(WaitStep)

(***************************************************************************)
(* Specification of the active/idle rate: the application draws frame      *)
(* after frame, passing active or not; sleeps are exact, no input arrives. *)
(***************************************************************************)
NextSticky ==
    \/ ImplInit(4000, 2000)
    \/ \E active \in BOOLEAN :
          /\ clock <= Epoch + StickyTime
          /\ active \/ nActiveFrames > -MaxIdle
          /\ DrawScreen(active)
    \/ WaitReturn
    \/ WaitSleep(0)

SpecSticky == Init /\ [][NextSticky]_vars

(***************************************************************************)
(* Specification of the decoder over its code alphabet: every control      *)
(* code, escape, a letter, delete codes, a shifted arrow, and wheel        *)
(* records with modifier bits arrive; the application calls NewFrame.      *)
(***************************************************************************)
KeyCodes == (0..27) \cup { 97, 127, 330, 393 }

KeyItems ==
    { Key(c) : c \in KeyCodes } \cup
    { Mouse(0, 0, BUTTON4_PRESSED + BUTTON_CTRL),
      Mouse(1, 1, BUTTON5_PRESSED + BUTTON_SHIFT + BUTTON_ALT) }

NextKeys ==
    \/ ImplInit(60, -1)
    \/ \E item \in KeyItems : Len(arrived) < MaxKeys /\ Arrive(item)
    \/ NewFrame

SpecKeys == Init /\ [][NextKeys]_vars

(***************************************************************************)
(* Specification of the decoder over key codes of both builds: codes       *)
(* below 512 and the codes defined from KEY_OFFSET. A code from 512 on     *)
(* that reaches keysDown[c] writes outside the array; the model records    *)
(* the index used in io.KeysDown.                                          *)
(***************************************************************************)
PlatformItems ==
    { Key(c) : c \in { 1, 27, 97, 330, 511, KEY_BREAK, KEY_HOME, KEY_F0 } }

NextPlatform ==
    \/ ImplInit(60, -1)
    \/ \E item \in PlatformItems : Len(arrived) < MaxKeys /\ Arrive(item)
    \/ NewFrame

SpecPlatform == Init /\ [][NextPlatform]_vars

(***************************************************************************)
(* Claims about the differential renderer                                  *)
(***************************************************************************)
Rows == 0..(g_screen.ny - 1)
Columns == 0..(g_screen.nx - 1)
RowWritten(y) == \E k \in 1..Len(ops) : ops[k][2] = y
DimsAsCached == prevAtEntry.nx = g_screen.nx /\ prevAtEntry.ny = g_screen.ny
RowDiffers(y) ==
    \E x \in Columns : prevAtEntry.data[y * g_screen.nx + x] # g_screen.data[y * g_screen.nx + x]

\* C1: a DrawScreen call that finds the buffer with the dimensions and the cells it
\* had at the previous DrawScreen call issues no move, no attron and no addstr.
C1_UnchangedFrameWritesNothing ==
    (pc = "wait" /\ sameAsLast) => Len(ops) = 0

C1_Witness ==
    /\ pc = "wait"
    /\ sameAsLast
    /\ g_screen.ny = 2
    /\ g_screen.nx = 2
    /\ \E i \in DOMAIN g_screen.data : g_screen.data[i] # 0

\* C2: with unchanged dimensions, DrawScreen issues terminal writes for row y exactly
\* when some cell of row y differs from the cached previous frame, and every write it
\* issues belongs to such a row.
C2_WritesExactlyDirtyRows ==
    (pc = "wait" /\ DimsAsCached) =>
        /\ \A y \in Rows : RowWritten(y) <=> RowDiffers(y)
        /\ \A k \in 1..Len(ops) : ops[k][2] \in Rows

C2_Witness ==
    /\ pc = "wait"
    /\ DimsAsCached
    /\ g_screen.nx = 2
    /\ g_screen.ny = 2
    /\ Cardinality({i \in DOMAIN g_screen.data : prevAtEntry.data[i] # g_screen.data[i]}) = 1
    /\ prevAtEntry.data[3] # g_screen.data[3]
    /\ RowWritten(1)
    /\ ~RowWritten(0)

\* C3: when the width or the height differs from the cached previous buffer's,
\* DrawScreen writes every row of the buffer and gives the cache the new dimensions.
C3_ResizeRepaintsAll ==
    (pc = "wait" /\ ~DimsAsCached) =>
        /\ \A y \in Rows : RowWritten(y)
        /\ screenPrev.nx = g_screen.nx
        /\ screenPrev.ny = g_screen.ny

\* a resize after which row 0 coincides with the stale content of the cache
C3_Witness ==
    /\ pc = "wait"
    /\ ~DimsAsCached
    /\ prevAtEntry.nx = 2
    /\ g_screen.nx = 1
    /\ g_screen.ny = 2
    /\ g_screen.data[0] # 0
    /\ prevAtEntry.data[0] = g_screen.data[0]
    /\ RowWritten(0)

\* the character a cell is meant to show: its code, a space when the code is zero
Shown(cell) == IF CellCh(cell) = 0 THEN 32 ELSE CellCh(cell)

CellMatches(y, x) ==
    LET cell == g_screen.data[y * g_screen.nx + x]
        tc   == stdscr.cells[<<y, x>>]
    IN /\ tc.ch = Shown(cell)
       /\ tc.pair \in DOMAIN pairs
       /\ pairs[tc.pair] = <<CellF(cell), CellB(cell)>>

\* C4: at the return of each DrawScreen the terminal shows, in every (row, column) of
\* the buffer, the cell's character code (a space for code zero) in the colour pair of
\* the cell's foreground and background.
C4_TerminalMatchesBuffer ==
    pc = "wait" => \A y \in Rows : \A x \in Columns : CellMatches(y, x)

(***************************************************************************)
(* Claims about the frame pacer                                            *)
(***************************************************************************)
\* C5: the scheduled tick is the start time plus the intervals chosen by the waits
\* that timed out (t0 + N*T for a constant interval T), never a value taken from the
\* clock; and with no pending input and every frame's work shorter than its interval,
\* each wait returns no earlier than 100 microseconds before that tick and no later
\* than the tick plus the longest overshoot of a sleep.
C5_TicksOnGrid ==
    /\ g_vsync.tNext_us = sched.t0 + sched.sum
    /\ (pc = "idle" /\ sched.sum > 0 /\ sched.early = 0 /\ ~sched.slow) =>
          /\ sched.retAt >= g_vsync.tNext_us - 100
          /\ sched.retAt <= g_vsync.tNext_us + MaxOvershoot

\* the fourth tick and later, reached after work and an overshooting sleep
C5_Witness ==
    /\ pc = "idle"
    /\ sched.sum >= 1000
    /\ sched.early = 0
    /\ ~sched.slow
    /\ sched.work > 0
    /\ sched.retAt > g_vsync.tNext_us - 100
    /\ sched.retAt # g_vsync.tNext_us - 100 + MaxOvershoot
    /\ clock > sched.retAt

Codes(q) == [k \in 1..Len(q) |-> q[k].code]

\* C6: no code is lost or reordered by wait's poll: the codes NewFrame has read so
\* far, followed by the codes still queued, are the codes that arrived, in order.
C6_InputKeepsOrder ==
    consumed \o Codes(inq) = Codes(arrived)

\* a wait returned early on a pending code, and NewFrame then read two different codes
C6_Witness ==
    /\ sched.early = 1
    /\ Len(consumed) >= 2
    /\ consumed[1] # consumed[2]
    /\ KEY_MOUSE \in {consumed[1], consumed[2]}

\* C7: a DrawScreen(active = true) call and the 9 calls after it wait with the active
\* interval; from the 10th consecutive call with active = false on, DrawScreen waits
\* with the idle interval.
C7_ActiveWindow ==
    (pc = "wait" /\ sched.sinceActive >= 0) =>
        /\ wait.active = (sched.sinceActive <= 9)
        /\ wait.tStep_us = IF sched.sinceActive <= 9 THEN g_vsync.tStepActive_us
                                                      ELSE g_vsync.tStepIdle_us

\* the 12th consecutive call with active = false after a call with active = true
C7_Witness ==
    /\ pc = "wait"
    /\ sched.sinceActive = 12
    /\ ~wait.active
    /\ wait.tStep_us = 500

(***************************************************************************)
(* Claims about the input decoder                                          *)
(***************************************************************************)
\* C8: a frame that reads escape and one more code sets the alt modifier and decodes
\* the second code, whatever it is, as the one key of the frame; a frame that reads
\* escape alone leaves alt unset and marks key slot 27 down.
C8_EscapePrefix ==
    /\ (frames > 0 /\ Len(batch) = 2 /\ batch[1] = 27) =>
          LET ref == DecodeKey(FrameStart(io), batch[2])
          IN /\ io.KeyAlt
             /\ io.KeysDown = ref.KeysDown
             /\ Cardinality(io.KeysDown) = 1
             /\ io.KeyCtrl = ref.KeyCtrl
             /\ io.KeyShift = ref.KeyShift
             /\ io.InputChars = ref.InputChars
             /\ hasInput
    /\ (frames > 0 /\ batch = <<27>>) =>
          /\ ~io.KeyAlt
          /\ io.KeysDown = {27}
          /\ hasInput

C8_Witness ==
    /\ batch = <<27, 1>>
    /\ io.KeyAlt
    /\ io.KeyCtrl
    /\ io.KeysDown = {97}

IsMouse(item) == item.code = KEY_MOUSE
IsLeftPress(item) ==
    IsMouse(item) /\ HasBit(item.ev[3], BUTTON1_PRESSED) /\ ~HasBit(item.ev[3], BUTTON1_RELEASED)
IsLeftRelease(item) ==
    IsMouse(item) /\ HasBit(item.ev[3], BUTTON1_RELEASED) /\ ~HasBit(item.ev[3], BUTTON1_PRESSED)
KeysOnly(from, to) == \A k \in from..to : ~IsMouse(arrived[k])
Delivered == frames > 0 /\ inq = <<>>

\* C9: when a left-press record arrives and then, after non-mouse key codes only
\* (escape among them), a left-release record, the left-button-down flag NewFrame
\* reports is true once the press is delivered and false once the release is.
C9_LeftButtonFollowsRecords ==
    (Delivered /\ Len(arrived) > 0 /\ IsLeftPress(arrived[1])) =>
        /\ KeysOnly(2, Len(arrived)) => io.MouseDown[1] = 1
        /\ \A j \in 2..Len(arrived) :
              (IsLeftRelease(arrived[j]) /\ KeysOnly(2, j - 1) /\ KeysOnly(j + 1, Len(arrived)))
                  => io.MouseDown[1] = 0

ButtonBits == << {BUTTON1_PRESSED, BUTTON1_RELEASED},
                 {BUTTON3_PRESSED, BUTTON3_RELEASED},
                 {BUTTON2_PRESSED, BUTTON2_RELEASED} >>
RecordFor(b) == \E k \in 1..Len(recs) : \E bit \in ButtonBits[b] : HasBit(recs[k][3], bit)

\* C10 as stated: MousePos and each MouseDown flag at the end of a NewFrame are those
\* of the end of the NewFrame before, unless a mouse record read in between reported a
\* position, respectively a press or a release of that button.
C10_MouseStatePersists ==
    frames >= 2 =>
        /\ io.MousePos # prevMouse.MousePos => Len(recs) > 0
        /\ \A b \in 1..3 : io.MouseDown[b] # prevMouse.MouseDown[b] => RecordFor(b)

\* C10 as amended: ... or the latest mouse record read has (bstate & 0xf) == 1 (left
\* button released), in which case NewFrame reports all three flags as not down.
C10_MouseStatePersistsOrLeftRelease ==
    frames >= 2 =>
        /\ io.MousePos # prevMouse.MousePos => Len(recs) > 0
        /\ \A b \in 1..3 : io.MouseDown[b] # prevMouse.MouseDown[b] =>
              \/ RecordFor(b)
              \/ ms.mstate % 16 = 1 /\ io.MouseDown = <<0, 0, 0>>

\* the right button, down at the end of the frame before, is cleared by a frame that
\* read a left-release record only
C10_Witness ==
    /\ frames >= 2
    /\ prevMouse.MouseDown[2] = 1
    /\ io.MouseDown[2] = 0
    /\ ~RecordFor(2)
    /\ Len(recs) = 1
    /\ ms.mstate = BUTTON1_RELEASED

\* the key codes a batch of read codes decodes: a code after escape stands for the
\* pair, a mouse code is no key
RECURSIVE Logical(_)
Logical(b) ==
    IF b = <<>> THEN <<>>
    ELSE IF Head(b) = KEY_MOUSE THEN Logical(Tail(b))
    ELSE IF Head(b) = 27 /\ Len(b) >= 2 THEN <<b[2]>> \o Logical(Tail(Tail(b)))
    ELSE <<Head(b)>> \o Logical(Tail(b))

AfterCtrl(c) == IF IsCtrlCode(c) THEN 97 + c - 1 ELSE c
RecHas(bit) == \E k \in 1..Len(recs) : HasBit(recs[k][3], bit)

\* C11: at the return of NewFrame every key-down flag, every modifier flag and a
\* non-zero wheel delta comes from a code or a mouse record read during that call; a
\* call that read no code returns with no key down, no modifier and wheel delta 0.
C11_TransientsAreFresh ==
    frames > 0 =>
        LET keys == Logical(batch)
        IN /\ batch = <<>> =>
                 /\ io.KeysDown = {}
                 /\ ~io.KeyCtrl /\ ~io.KeyShift /\ ~io.KeyAlt
                 /\ io.MouseWheel = 0
           /\ \A slot \in io.KeysDown :
                 \E k \in 1..Len(keys) : slot = KeySlot(AfterCtrl(keys[k]))
           /\ io.KeyCtrl => (\E k \in 1..Len(keys) : IsCtrlCode(keys[k])) \/ RecHas(BUTTON_CTRL)
           /\ io.KeyShift =>
                 (\E k \in 1..Len(keys) : IsShiftArrow(keys[k])) \/ RecHas(BUTTON_SHIFT)
           /\ io.KeyAlt =>
                 (\E j \in 1..(Len(batch) - 1) : batch[j] = 27) \/ RecHas(BUTTON_ALT)
           /\ io.MouseWheel # 0 => RecHas(BUTTON4_PRESSED) \/ RecHas(BUTTON5_PRESSED)

\* the frame before read ctrl-A and a wheel-up record with the ctrl bit; this frame
\* read nothing
C11_Witness ==
    /\ frames >= 2
    /\ batch = <<>>
    /\ consumed = <<1, KEY_MOUSE>>
    /\ HasBit(ms.mstate, BUTTON4_PRESSED)
    /\ io.KeysDown = {}
    /\ ~io.KeyCtrl
    /\ io.MouseWheel = 0

\* C12: a NewFrame call reads every code that is queued when it is called, a code
\* pushed back by an aborted wait included, and leaves the queue empty; its result is
\* true exactly when it read at least one code.
C12_DrainsAndReports ==
    [][NewFrame => /\ inq' = <<>>
                   /\ consumed' = consumed \o Codes(inq)
                   /\ hasInput' = (inq # <<>>)]_vars

\* the one NewFrame so far followed a wait that a pending code had aborted, and it
\* read that code and one more
C12_Witness ==
    /\ pc = "idle"
    /\ sched.early = 1
    /\ frames = 1
    /\ Len(batch) >= 2
    /\ inq = <<>>
    /\ hasInput

\* the codes of a batch that are decoded as keys, with the position in the batch:
\* a code read alone, or the code that follows an escape
RECURSIVE KeyAt(_, _)
KeyAt(b, j) ==
    IF j > Len(b) THEN {}
    ELSE IF b[j] = KEY_MOUSE THEN KeyAt(b, j + 1)
    ELSE IF b[j] = 27 /\ j < Len(b) THEN {b[j + 1]} \cup KeyAt(b, j + 2)
    ELSE {b[j]} \cup KeyAt(b, j + 1)

\* C13: a control code in 1..26 other than 9, 10 and 13, read alone or after an
\* escape, sets the ctrl modifier and marks the letter key 'a' + c - 1 as down; the
\* codes 9, 10 and 13 do not set the ctrl modifier.
C13_CtrlCodes ==
    frames > 0 =>
        LET keys == KeyAt(batch, 1)
        IN /\ \A c \in (1..26) \ {9, 10, 13} :
                 c \in keys => io.KeyCtrl /\ (97 + c - 1) \in io.KeysDown
           /\ (keys # {} /\ keys \subseteq {9, 10, 13} /\ ~RecHas(BUTTON_CTRL)) => ~io.KeyCtrl
           /\ \A c \in {9, 10, 13} : c \in keys => c \in io.KeysDown

\* ctrl-Z read after an escape
C13_Witness ==
    /\ frames > 0
    /\ batch = <<27, 26>>
    /\ io.KeyCtrl
    /\ io.KeyAlt
    /\ io.KeysDown = {122}

Printable(c) == c >= 32 /\ c < 127

\* C14: the characters a NewFrame call hands to the text-input stream are the
\* printable codes below 127 it read, one per code in read order (10, the Enter key,
\* is none of them); control codes, codes from 127 on and mouse codes append nothing.
C14_TextIsPrintableCodes ==
    frames > 0 => io.InputChars = SelectSeq(batch, Printable)

\* C15: after the rendering part of every DrawScreen call the cached previous buffer
\* has the width and the height of the current buffer and the same value in every
\* cell.
C15_CacheEqualsBuffer ==
    pc = "wait" =>
        /\ screenPrev.nx = g_screen.nx
        /\ screenPrev.ny = g_screen.ny
        /\ \A i \in 0..(g_screen.nx * g_screen.ny - 1) :
              screenPrev.data[i] = g_screen.data[i]

\* dimensions unchanged, row 1 dirty and copied, row 0 clean and not blank
C15_Witness ==
    /\ pc = "wait"
    /\ DimsAsCached
    /\ g_screen.nx = 2
    /\ g_screen.ny = 2
    /\ RowWritten(1)
    /\ ~RowWritten(0)
    /\ g_screen.data[0] # 0
    /\ prevAtEntry.data[2] # g_screen.data[2]
    /\ screenPrev.data[2] = g_screen.data[2]

\* C16: a wait returns either because it read a pending code, and then the scheduled
\* tick and the queued codes are as before, or because the clock is within 100
\* microseconds of the previous scheduled tick plus the chosen interval or past it,
\* and then the scheduled tick advances by that interval; and every wait returns.
C16_WaitReturns ==
    /\ [][(pc = "wait" /\ pc' = "idle") =>
             \/ /\ inq # <<>>
                /\ g_vsync' = g_vsync
                /\ Codes(inq') = Codes(inq)
             \/ /\ clock >= g_vsync.tNext_us + wait.tStep_us - 100
                /\ g_vsync'.tNext_us = g_vsync.tNext_us + wait.tStep_us]_vars
    /\ (pc = "wait") ~> (pc = "idle")

\* a wait has timed out and a later wait has returned early on a pending code
C16_Witness ==
    /\ pc = "idle"
    /\ sched.sum > 0
    /\ sched.early = 1
    /\ wait.tNextCur_us = wait.tNow_us
    /\ inq # <<>>
    /\ clock < g_vsync.tNext_us + wait.tStep_us - 100

\* the key-down flags a NewFrame call returns with when it is called now and reads
\* the given codes
KeysDownAfter(codes) ==
    ReadLoop([q |-> [k \in 1..Len(codes) |-> Key(codes[k])], e |-> mev, m |-> ms,
              i |-> FrameStart(io), has |-> FALSE, batch |-> <<>>, recs |-> <<>>]).i.KeysDown

\* C17: for every index Init enters in the key map there is a code, read alone or
\* after an escape, after which NewFrame returns with the key-down flag of that index
\* set.
C17_NamedKeysReachable ==
    g_screen.alloc =>
        \A k \in KeyMap :
            \E c \in 0..(KeysDownSize - 1) :
                k \in KeysDownAfter(<<c>>) \/ k \in KeysDownAfter(<<27, c>>)

\* C18: the first DrawScreen call after Shutdown and Init writes every row of the
\* buffer, whatever the frame drawn before Shutdown was.
C18_RestartRepaintsAll ==
    (pc = "wait" /\ sched.first) => \A y \in Rows : RowWritten(y)

\* the number of characters the addstr calls of the DrawScreen in progress carry for
\* row y
RECURSIVE RowChars(_, _)
RowChars(y, k) ==
    IF k > Len(ops) THEN 0
    ELSE (IF ops[k][1] = "addstr" /\ ops[k][2] = y THEN Len(ops[k][3]) ELSE 0)
         + RowChars(y, k + 1)

\* C19: the addstr calls DrawScreen issues for a row it writes carry nx characters in
\* total, whatever the 16-bit character codes of the row's cells are.
C19_RunsCoverRow ==
    pc = "wait" => \A y \in Rows : RowWritten(y) => RowChars(y, 1) = g_screen.nx

\* C20: every index NewFrame uses to write the key-down array is one of its 512
\* entries, for every key code read, alone or after an escape.
C20_KeyIndexInRange ==
    \A k \in io.KeysDown : k \in 0..(KeysDownSize - 1)

====
